---- MODULE Spec2Model ----
(***************************************************************************)
(* Model of starkware/starknet/compiler/validation_utils.py.               *)
(*                                                                         *)
(* Every function of the file is a pure function of its arguments.  A      *)
(* behaviour of the model is one call: Init chooses which function is      *)
(* called and with which arguments, and the function's action computes     *)
(* the outcome of the call (normal return, PreprocessorError with its      *)
(* message and location, or AssertionError).                               *)
(***************************************************************************)
EXTENDS Integers, Sequences, FiniteSets, TLC

VARIABLES
    call,                \* the function being called
    abi,                 \* verify_account_contract: contract_abi
    is_account_contract, \* verify_account_contract: is_account_contract
    elm,                 \* verify_decorators / verify_no_return_values: elm
    allowed_decorators,  \* verify_decorators: allowed_decorators
    arguments,           \* encode_calldata_arguments: arguments.identifiers
    result,              \* how the call ended
    examined,            \* decorators the loop of verify_decorators looked at
    encode_data_call,    \* the call encode_calldata_arguments made to encode_data
    pc                   \* "start" before the call, "done" after it

vars == <<call, abi, is_account_contract, elm, allowed_decorators, arguments,
          result, examined, encode_data_call, pc>>

-----------------------------------------------------------------------------
(* Bounds of the checked inputs. *)

MaxAbiLen == 4
MaxDuplicates == 1
MaxDecorators == 3
MaxAllowed == 2
MaxMembers == 2
MaxArguments == 3

SeqsUpTo(S, n) == UNION {[1..k -> S] : k \in 0..n}

-----------------------------------------------------------------------------
(* Outcomes of a call. *)

NoLocation == "None"

Returned == [raised |-> "None", message |-> "", location |-> NoLocation]

PreprocessorError(message, location) ==
    [raised |-> "PreprocessorError", message |-> message, location |-> location]

AssertionError == [raised |-> "AssertionError", message |-> "", location |-> NoLocation]

NotCalled == [raised |-> "not called", message |-> "", location |-> NoLocation]

-----------------------------------------------------------------------------
(* starkware.starknet.public.abi: the reserved entry point names. *)

VALIDATE_ENTRY_POINT_NAME == "__validate__"
EXECUTE_ENTRY_POINT_NAME == "__execute__"
VALIDATE_DECLARE_ENTRY_POINT_NAME == "__validate_declare__"

ACCOUNT_ENTRY_POINT_NAMES ==
    {VALIDATE_ENTRY_POINT_NAME, EXECUTE_ENTRY_POINT_NAME, VALIDATE_DECLARE_ENTRY_POINT_NAME}

-----------------------------------------------------------------------------
(* verify_account_contract *)

MsgMissingEntryPoints == "Account contracts must have external functions named ..."
MsgCalldataMismatch == "Account contracts must have the exact same calldata for __validate__ and __execute__ functions."
MsgValidateDeclare == "__validate_declare__ function must have one argument class_hash: felt."
MsgOnlyAccountContracts == "Only account contracts may have functions named ..."

\* The inputs a __validate_declare__ function must have.
ClassHashInputs == <<[name |-> "class_hash", type |-> "felt"]>>

\* A scan that stores the entries of every type.
IsAccountEntryPoint_AnyType(entry_point) ==
    entry_point.name \in ACCOUNT_ENTRY_POINT_NAMES

\* The condition under which the scan stores an entry.
IsAccountEntryPoint(entry_point) ==
    entry_point.type = "function" /\ entry_point.name \in ACCOUNT_ENTRY_POINT_NAMES

\* A dictionary that keeps the first entry stored under a key.
DictSet_KeepFirst(d, key, value) ==
    [k \in DOMAIN d \cup {key} |-> IF k \in DOMAIN d THEN d[k] ELSE value]

\* account_entry_points[entry_point["name"]] = entry_point
DictSet(d, key, value) ==
    [k \in DOMAIN d \cup {key} |-> IF k = key THEN value ELSE d[k]]

\* The dictionary after the scan has gone through entries i..Len(contract_abi),
\* starting from the dictionary d.
RECURSIVE CollectFrom(_, _, _)
CollectFrom(contract_abi, i, d) ==
    IF i > Len(contract_abi) THEN d
    ELSE CollectFrom(contract_abi, i + 1,
                     IF IsAccountEntryPoint(contract_abi[i])
                     THEN DictSet(d, contract_abi[i].name, contract_abi[i])
                     ELSE d)

\* An empty dictionary: the function whose domain is empty.
EmptyDict == [k \in {} |-> k]

account_entry_points_of(contract_abi) == CollectFrom(contract_abi, 1, EmptyDict)

\* account_entry_point_names != ACCOUNT_ENTRY_POINT_NAMES
NamesDiffer(account_entry_point_names) ==
    account_entry_point_names # ACCOUNT_ENTRY_POINT_NAMES

\* A comparison of the numbers of inputs only.
CalldataDiffers_LengthOnly(execute_entry_point, validate_entry_point) ==
    Len(execute_entry_point.inputs) # Len(validate_entry_point.inputs)

\* execute_entry_point["inputs"] != validate_entry_point["inputs"]
CalldataDiffers(execute_entry_point, validate_entry_point) ==
    execute_entry_point.inputs # validate_entry_point.inputs

\* A comparison of the first input only.
ValidateDeclareInputsDiffer_FirstOnly(validate_declare_entry_point) ==
    \/ validate_declare_entry_point.inputs = <<>>
    \/ validate_declare_entry_point.inputs[1] # ClassHashInputs[1]

\* A comparison that leaves out the name of the input.
ValidateDeclareInputsDiffer_TypeOnly(validate_declare_entry_point) ==
    \/ Len(validate_declare_entry_point.inputs) # 1
    \/ validate_declare_entry_point.inputs[1].type # "felt"

\* validate_declare_entry_point["inputs"] != [{"name": "class_hash", "type": "felt"}]
ValidateDeclareInputsDiffer(validate_declare_entry_point) ==
    validate_declare_entry_point.inputs # ClassHashInputs

\* A check that only rejects the full set of reserved names.
HasAccountEntryPoints_All(account_entry_point_names) ==
    account_entry_point_names = ACCOUNT_ENTRY_POINT_NAMES

\* len(account_entry_point_names) > 0
HasAccountEntryPoints(account_entry_point_names) ==
    Cardinality(account_entry_point_names) > 0

verify_account_contract(contract_abi, account) ==
    LET account_entry_points == account_entry_points_of(contract_abi)
        account_entry_point_names == DOMAIN account_entry_points
    IN  IF account
        THEN IF NamesDiffer(account_entry_point_names)
             THEN PreprocessorError(MsgMissingEntryPoints, NoLocation)
             ELSE IF CalldataDiffers(account_entry_points[EXECUTE_ENTRY_POINT_NAME],
                                     account_entry_points[VALIDATE_ENTRY_POINT_NAME])
             THEN PreprocessorError(MsgCalldataMismatch, NoLocation)
             ELSE IF ValidateDeclareInputsDiffer(
                         account_entry_points[VALIDATE_DECLARE_ENTRY_POINT_NAME])
             THEN PreprocessorError(MsgValidateDeclare, NoLocation)
             ELSE Returned
        ELSE IF HasAccountEntryPoints(account_entry_point_names)
             THEN PreprocessorError(MsgOnlyAccountContracts, NoLocation)
             ELSE Returned

-----------------------------------------------------------------------------
(* The ABIs the calls are checked on. *)

ArgClassHash == [name |-> "class_hash", type |-> "felt"]
ArgOtherName == [name |-> "declared_class_hash", type |-> "felt"]
ArgOtherType == [name |-> "class_hash", type |-> "felt*"]

InputLists ==
    {<<>>, <<ArgClassHash>>, <<ArgOtherName>>, <<ArgOtherType>>,
     <<ArgClassHash, ArgOtherName>>, <<ArgOtherName, ArgClassHash>>}

OutputLists == {<<>>, <<[name |-> "retdata_size", type |-> "felt"]>>}

EntryTypes == {"function", "event"}
EntryNames == ACCOUNT_ENTRY_POINT_NAMES \cup {"transfer"}

\* Entries of every type and name, all with the same inputs; the functions
\* with and without outputs.
KindEntries ==
    [type : {"function"}, name : EntryNames, inputs : {<<ArgClassHash>>},
     outputs : OutputLists]
    \cup [type : EntryTypes \ {"function"}, name : EntryNames,
          inputs : {<<ArgClassHash>>}, outputs : {<<>>}]

\* Function entries with a reserved name and any of the inputs.
SignatureEntries ==
    [type : {"function"}, name : ACCOUNT_ENTRY_POINT_NAMES, inputs : InputLists,
     outputs : {<<>>}]

FunctionEntry(name, inputs) ==
    [type |-> "function", name |-> name, inputs |-> inputs, outputs |-> <<>>]

\* The three reserved functions with any inputs, after up to MaxDuplicates
\* further reserved functions.
SignatureABIs ==
    {pre \o <<FunctionEntry(VALIDATE_ENTRY_POINT_NAME, iv),
              FunctionEntry(EXECUTE_ENTRY_POINT_NAME, ie),
              FunctionEntry(VALIDATE_DECLARE_ENTRY_POINT_NAME, id)>> :
        pre \in SeqsUpTo(SignatureEntries, MaxDuplicates),
        iv \in InputLists, ie \in InputLists, id \in InputLists}

\* Up to MaxAbiLen entries of every type and name.
KindABIs(n) == [1..n -> KindEntries]

-----------------------------------------------------------------------------
(* verify_decorators *)

MsgUnexpectedDecorator == "Unexpected decorator for ..."

\* decorator.name not in allowed_decorators, on a list of strings.
NotAllowed(name, allowed) == \A j \in DOMAIN allowed : allowed[j] # name

\* A loop that goes through all decorators and reports the last offending one.
RECURSIVE VerifyDecoratorsFrom_KeepGoing(_, _, _)
VerifyDecoratorsFrom_KeepGoing(decorators, allowed, i) ==
    IF i > Len(decorators)
    THEN [result |-> Returned, examined |-> Len(decorators)]
    ELSE LET rest == VerifyDecoratorsFrom_KeepGoing(decorators, allowed, i + 1)
         IN  IF rest.result # Returned \/ ~NotAllowed(decorators[i].name, allowed)
             THEN rest
             ELSE [result |-> PreprocessorError(MsgUnexpectedDecorator,
                                                decorators[i].location),
                   examined |-> Len(decorators)]

\* The loop from the i-th decorator on: the outcome, and the number of
\* decorators the loop has looked at when it ends.
RECURSIVE VerifyDecoratorsFrom(_, _, _)
VerifyDecoratorsFrom(decorators, allowed, i) ==
    IF i > Len(decorators)
    THEN [result |-> Returned, examined |-> Len(decorators)]
    ELSE IF NotAllowed(decorators[i].name, allowed)
    THEN [result |-> PreprocessorError(MsgUnexpectedDecorator, decorators[i].location),
          examined |-> i]
    ELSE VerifyDecoratorsFrom(decorators, allowed, i + 1)

verify_decorators(e, allowed) == VerifyDecoratorsFrom(e.decorators, allowed, 1)

-----------------------------------------------------------------------------
(* verify_no_return_values *)

MsgNoReturnValues == "... must have no return values."

NoReturns == [kind |-> "None"]

\* A check that accepts every annotation that is not a tuple type.
HasReturnValues_TupleOnly(returns) ==
    returns.kind = "TypeTuple" /\ Len(returns.members) > 0

\* not isinstance(returns, TypeTuple) or len(returns.members) > 0
HasReturnValues(returns) ==
    returns.kind # "TypeTuple" \/ Len(returns.members) > 0

verify_no_return_values(e) ==
    IF e.returns = NoReturns THEN Returned
    ELSE IF HasReturnValues(e.returns)
    THEN PreprocessorError(MsgNoReturnValues, e.returns.location)
    ELSE Returned

-----------------------------------------------------------------------------
(* encode_calldata_arguments *)

MsgUnknownType == "Unknown identifier ..."

\* visitor.resolve_type: a felt resolves to itself, the name of a struct to
\* its full name, and a name the identifier table does not have raises.
KnownTypes == {"felt", "MyStruct"}
resolve_type(cairo_type) ==
    IF cairo_type \notin KnownTypes
    THEN [raised |-> "PreprocessorError"]
    ELSE [raised |-> "None",
          value |-> IF cairo_type = "felt" THEN "felt" ELSE "contract.MyStruct"]

\* A location that is handed on unchecked.
non_optional_location_Unchecked(location) ==
    [raised |-> "None", value |-> location]

non_optional_location(location) ==
    IF location # NoLocation
    THEN [raised |-> "None", value |-> location]
    ELSE [raised |-> "AssertionError"]

\* ArgumentInfo(name=..., cairo_type=..., location=...) for one typed
\* identifier: the keyword arguments are evaluated in the order written.
ArgumentInfoOf(typed_identifier) ==
    LET cairo_type == resolve_type(typed_identifier.type)
        location == non_optional_location(typed_identifier.location)
    IN  IF cairo_type.raised # "None"
        THEN [raised |-> PreprocessorError(MsgUnknownType, NoLocation)]
        ELSE IF location.raised # "None"
        THEN [raised |-> AssertionError]
        ELSE [raised |-> Returned,
              value |-> [name |-> typed_identifier.name,
                         cairo_type |-> cairo_type.value,
                         location |-> location.value]]

\* A list built in the reverse order.
RECURSIVE ArgumentInfosFrom_Reversed(_, _, _)
ArgumentInfosFrom_Reversed(identifiers, i, infos) ==
    IF i > Len(identifiers) THEN [raised |-> Returned, value |-> infos]
    ELSE LET info == ArgumentInfoOf(identifiers[i])
         IN  IF info.raised # Returned THEN [raised |-> info.raised]
             ELSE ArgumentInfosFrom_Reversed(identifiers, i + 1,
                                             <<info.value>> \o infos)

\* The list comprehension from the i-th identifier on; infos are the
\* ArgumentInfo built so far.
RECURSIVE ArgumentInfosFrom(_, _, _)
ArgumentInfosFrom(identifiers, i, infos) ==
    IF i > Len(identifiers) THEN [raised |-> Returned, value |-> infos]
    ELSE LET info == ArgumentInfoOf(identifiers[i])
         IN  IF info.raised # Returned THEN [raised |-> info.raised]
             ELSE ArgumentInfosFrom(identifiers, i + 1, Append(infos, info.value))

argument_infos_of(identifiers) == ArgumentInfosFrom(identifiers, 1, <<>>)

\* The call of encode_data.
EncodeDataCall(argument_infos) ==
    [called |-> TRUE, arguments |-> argument_infos, encoding_type |-> "CALLDATA",
     has_range_check_builtin |-> TRUE, identifiers |-> "visitor.identifiers"]

-----------------------------------------------------------------------------
(* The declarations and argument lists the calls are checked on. *)

Locations == {"file.cairo:1:1", "file.cairo:2:1"}

DecoratorNames == {"external", "External", "view"}
Decorators == [name : DecoratorNames, location : Locations]

MemberTypes == {"felt", "felt*"}
ReturnTypes ==
    {NoReturns}
    \cup [kind : {"TypeTuple"}, members : SeqsUpTo(MemberTypes, MaxMembers),
          location : Locations]
    \cup [kind : {"TypeFelt", "TypePointer", "TypeStruct"}, location : Locations]

ArgumentNames == {"x", "y"}
DeclaredTypes == KnownTypes \cup {"Missing"}
TypedIdentifiers ==
    [name : ArgumentNames, type : DeclaredTypes,
     location : {"file.cairo:1:1", NoLocation}]

-----------------------------------------------------------------------------
(* Initial values of the variables a call does not use. *)

NoElm == [decorators |-> <<>>, returns |-> NoReturns]
NoEncodeDataCall == [called |-> FALSE]

InitAccountContract ==
    /\ call = "verify_account_contract"
    /\ \/ \E n \in 0..MaxAbiLen : abi \in KindABIs(n)
       \/ abi \in SignatureABIs
    /\ is_account_contract \in BOOLEAN
    /\ elm = NoElm
    /\ allowed_decorators = <<>>
    /\ arguments = <<>>

InitDecorators ==
    /\ call = "verify_decorators"
    /\ abi = <<>>
    /\ is_account_contract = FALSE
    /\ \E decorators \in SeqsUpTo(Decorators, MaxDecorators) :
           elm = [decorators |-> decorators, returns |-> NoReturns]
    /\ allowed_decorators \in SeqsUpTo(DecoratorNames, MaxAllowed)
    /\ arguments = <<>>

InitNoReturnValues ==
    /\ call = "verify_no_return_values"
    /\ abi = <<>>
    /\ is_account_contract = FALSE
    /\ \E returns \in ReturnTypes : elm = [decorators |-> <<>>, returns |-> returns]
    /\ allowed_decorators = <<>>
    /\ arguments = <<>>

InitEncodeCalldata ==
    /\ call = "encode_calldata_arguments"
    /\ abi = <<>>
    /\ is_account_contract = FALSE
    /\ elm = NoElm
    /\ allowed_decorators = <<>>
    /\ arguments \in SeqsUpTo(TypedIdentifiers, MaxArguments)

Init ==
    /\ \/ InitAccountContract
       \/ InitDecorators
       \/ InitNoReturnValues
       \/ InitEncodeCalldata
    /\ result = NotCalled
    /\ examined = 0
    /\ encode_data_call = NoEncodeDataCall
    /\ pc = "start"

VerifyAccountContract ==
    /\ pc = "start"
    /\ call = "verify_account_contract"
    /\ result' = verify_account_contract(abi, is_account_contract)
    /\ pc' = "done"
    /\ UNCHANGED <<call, abi, is_account_contract, elm, allowed_decorators,
                   arguments, examined, encode_data_call>>

VerifyDecorators ==
    /\ pc = "start"
    /\ call = "verify_decorators"
    /\ result' = verify_decorators(elm, allowed_decorators).result
    /\ examined' = verify_decorators(elm, allowed_decorators).examined
    /\ pc' = "done"
    /\ UNCHANGED <<call, abi, is_account_contract, elm, allowed_decorators,
                   arguments, encode_data_call>>

VerifyNoReturnValues ==
    /\ pc = "start"
    /\ call = "verify_no_return_values"
    /\ result' = verify_no_return_values(elm)
    /\ pc' = "done"
    /\ UNCHANGED <<call, abi, is_account_contract, elm, allowed_decorators,
                   arguments, examined, encode_data_call>>

EncodeCalldataArguments ==
    /\ pc = "start"
    /\ call = "encode_calldata_arguments"
    /\ LET argument_infos == argument_infos_of(arguments)
       IN  /\ result' = argument_infos.raised
           /\ encode_data_call' =
                  IF argument_infos.raised = Returned
                  THEN EncodeDataCall(argument_infos.value)
                  ELSE encode_data_call
    /\ pc' = "done"
    /\ UNCHANGED <<call, abi, is_account_contract, elm, allowed_decorators,
                   arguments, examined>>

Next ==
    \/ VerifyAccountContract
    \/ VerifyDecorators
    \/ VerifyNoReturnValues
    \/ EncodeCalldataArguments

Spec == Init /\ [][Next]_vars

-----------------------------------------------------------------------------
(* Properties of verify_account_contract. *)

AccountDone == pc = "done" /\ call = "verify_account_contract"

\* The indices of the function entries of a with the given name.
FunctionsNamed(a, name) ==
    {i \in DOMAIN a : a[i].type = "function" /\ a[i].name = name}

\* found: the reserved names that name a function entry of a.
Found(a) ==
    {name \in {"__validate__", "__execute__", "__validate_declare__"} :
        FunctionsNamed(a, name) # {}}

Required == {"__validate__", "__execute__", "__validate_declare__"}

Last(S) == CHOOSE i \in S : \A j \in S : j <= i

\* The inputs of the last function entry of a with the given name.
InputsOf(a, name) == a[Last(FunctionsNamed(a, name))].inputs

MissingEntryPointsError == PreprocessorError(MsgMissingEntryPoints, NoLocation)
CalldataMismatchError == PreprocessorError(MsgCalldataMismatch, NoLocation)
ValidateDeclareError == PreprocessorError(MsgValidateDeclare, NoLocation)
OnlyAccountContractsError == PreprocessorError(MsgOnlyAccountContracts, NoLocation)

\* C1: with is_account_contract = true the call fails with the missing entry
\* points error exactly when found is not the set of the three reserved names;
\* entries that are not functions do not count towards found.
C1_MissingUnlessAllThree ==
    (AccountDone /\ is_account_contract)
        => ((result = MissingEntryPointsError) <=> (Found(abi) # Required))

\* A call on an ABI with two of the reserved functions and an event named as
\* the third, which fails with the missing entry points error.
C1_Witness ==
    /\ AccountDone /\ is_account_contract
    /\ Cardinality(Found(abi)) = 2
    /\ \E i \in DOMAIN abi :
           abi[i].type # "function" /\ abi[i].name \in Required \ Found(abi)
    /\ result = MissingEntryPointsError

\* C2: with is_account_contract = true and all three reserved functions in the
\* ABI, the call fails with the calldata mismatch error exactly when the inputs
\* of __execute__ and of __validate__ are not the same list of {name, type}.
C2_CalldataMismatch ==
    (AccountDone /\ is_account_contract /\ Found(abi) = Required)
        => ((result = CalldataMismatchError)
                <=> (InputsOf(abi, "__execute__") # InputsOf(abi, "__validate__")))

\* A call that fails with the calldata mismatch error on two lists of the same
\* arguments in a different order.
C2_Witness ==
    /\ AccountDone /\ is_account_contract /\ Found(abi) = Required
    /\ LET e == InputsOf(abi, "__execute__")
           v == InputsOf(abi, "__validate__")
       IN  /\ Len(e) = 2 /\ Len(v) = 2
           /\ e[1] = v[2] /\ e[2] = v[1] /\ e[1] # e[2]
    /\ result = CalldataMismatchError

\* C3 as stated: with is_account_contract = true and all three reserved
\* functions in the ABI, the call fails with the validate-declare error exactly
\* when the inputs of __validate_declare__ are not [class_hash: felt].
C3_Original ==
    (AccountDone /\ is_account_contract /\ Found(abi) = Required)
        => ((result = ValidateDeclareError)
                <=> (InputsOf(abi, "__validate_declare__")
                        # <<[name |-> "class_hash", type |-> "felt"]>>))

\* C3 as amended: the same, for the ABIs in which the inputs of __execute__
\* equal the inputs of __validate__; in the others the call fails with the
\* calldata mismatch error whatever the inputs of __validate_declare__ are.
C3_ValidateDeclare ==
    (AccountDone /\ is_account_contract /\ Found(abi) = Required)
        => IF InputsOf(abi, "__execute__") = InputsOf(abi, "__validate__")
           THEN (result = ValidateDeclareError)
                    <=> (InputsOf(abi, "__validate_declare__")
                            # <<[name |-> "class_hash", type |-> "felt"]>>)
           ELSE result = CalldataMismatchError

\* A call that fails with the validate-declare error on a __validate_declare__
\* of two arguments, the first of them class_hash: felt.
C3_Witness ==
    /\ AccountDone /\ is_account_contract /\ Found(abi) = Required
    /\ InputsOf(abi, "__execute__") = InputsOf(abi, "__validate__")
    /\ Len(InputsOf(abi, "__validate_declare__")) = 2
    /\ InputsOf(abi, "__validate_declare__")[1] = [name |-> "class_hash", type |-> "felt"]
    /\ result = ValidateDeclareError

\* C4: with is_account_contract = false the call succeeds exactly when no
\* function entry has a reserved name, and fails with the only-account-contracts
\* error otherwise.
C4_NonAccount ==
    (AccountDone /\ ~is_account_contract)
        => /\ (result = Returned) <=> (Found(abi) = {})
           /\ (Found(abi) # {}) => (result = OnlyAccountContractsError)

\* A call with is_account_contract = false that fails on an ABI with a single
\* reserved function.
C4_Witness ==
    /\ AccountDone /\ ~is_account_contract
    /\ \E name \in Required : Cardinality(FunctionsNamed(abi, name)) = 1
                                /\ Found(abi) = {name}
    /\ Len(abi) > 1
    /\ result = OnlyAccountContractsError

\* An ABI with exactly the three reserved entry points, in their correct format.
Conforming(a) ==
    /\ \A name \in Required : Cardinality(FunctionsNamed(a, name)) = 1
    /\ InputsOf(a, "__execute__") = InputsOf(a, "__validate__")
    /\ InputsOf(a, "__validate_declare__") = <<[name |-> "class_hash", type |-> "felt"]>>

\* The ABIs that differ from a in the given field of the i-th entry.
MutationsOf(a, i, field) ==
    CASE field = "type" ->
             {[a EXCEPT ![i].type = t] : t \in EntryTypes \ {a[i].type}}
      [] field = "name" ->
             {[a EXCEPT ![i].name = n] : n \in EntryNames \ {a[i].name}}
      [] field = "inputs" ->
             {[a EXCEPT ![i].inputs = l] : l \in InputLists \ {a[i].inputs}}
      [] field = "outputs" ->
             {[a EXCEPT ![i].outputs = l] : l \in OutputLists \ {a[i].outputs}}

EntryFields == {"type", "name", "inputs", "outputs"}

\* C5 as stated: on a conforming ABI the call with is_account_contract = true
\* succeeds, and it fails on every ABI that differs from it in one field.
C5_Original ==
    (AccountDone /\ is_account_contract /\ Conforming(abi))
        => /\ result = Returned
           /\ \A i \in DOMAIN abi : \A field \in EntryFields :
                  \A m \in MutationsOf(abi, i, field) :
                      verify_account_contract(m, TRUE) # Returned

\* C5 as amended: on a conforming ABI the call with is_account_contract = true
\* succeeds, and it fails on every ABI that differs from it in the type, the
\* name or the inputs of one of the three reserved function entries.
C5_ConformingAndMutations ==
    (AccountDone /\ is_account_contract /\ Conforming(abi))
        => /\ result = Returned
           /\ \A i \in DOMAIN abi : \A field \in {"type", "name", "inputs"} :
                  (abi[i].type = "function" /\ abi[i].name \in Required)
                      => \A m \in MutationsOf(abi, i, field) :
                             verify_account_contract(m, TRUE) # Returned

\* A successful call on a conforming ABI whose __validate__ and __execute__
\* take arguments and which has a further entry.
C5_Witness ==
    /\ AccountDone /\ is_account_contract /\ Conforming(abi)
    /\ InputsOf(abi, "__execute__") # <<>>
    /\ Len(abi) > 3
    /\ result = Returned

\* The ABI without the reserved function entries that a later function entry
\* of the same name follows.
RECURSIVE KeepLast(_)
KeepLast(a) ==
    IF a = <<>> THEN <<>>
    ELSE IF /\ Head(a).type = "function"
            /\ Head(a).name \in Required
            /\ FunctionsNamed(Tail(a), Head(a).name) # {}
         THEN KeepLast(Tail(a))
         ELSE <<Head(a)>> \o KeepLast(Tail(a))

HasDuplicates(a) == \E name \in Required : Cardinality(FunctionsNamed(a, name)) > 1

\* C10: when a reserved name names more than one function entry, the call ends
\* as it does on the ABI that keeps only the last of them, with one of the
\* four errors of the function or with success.
C10_LastDuplicateWins ==
    (AccountDone /\ HasDuplicates(abi))
        => /\ result = verify_account_contract(KeepLast(abi), is_account_contract)
           /\ result \in {Returned, MissingEntryPointsError, CalldataMismatchError,
                          ValidateDeclareError, OnlyAccountContractsError}
           /\ (is_account_contract /\ Found(abi) = Required)
                  => ((result = Returned)
                        <=> /\ InputsOf(abi, "__execute__") = InputsOf(abi, "__validate__")
                            /\ InputsOf(abi, "__validate_declare__")
                                   = <<[name |-> "class_hash", type |-> "felt"]>>)

\* A successful call on an ABI whose first __validate_declare__ has inputs
\* other than [class_hash: felt] and whose last one has these inputs.
C10_Witness ==
    /\ AccountDone /\ is_account_contract /\ Found(abi) = Required
    /\ \E i \in FunctionsNamed(abi, "__validate_declare__") :
           /\ i < Last(FunctionsNamed(abi, "__validate_declare__"))
           /\ abi[i].inputs # <<[name |-> "class_hash", type |-> "felt"]>>
    /\ result = Returned

\* A failing call on an ABI whose first __validate__ has the inputs of
\* __execute__ and whose last one has others.
C10_WitnessLater ==
    /\ AccountDone /\ is_account_contract /\ Found(abi) = Required
    /\ \E i \in FunctionsNamed(abi, "__validate__") :
           /\ i < Last(FunctionsNamed(abi, "__validate__"))
           /\ abi[i].inputs = InputsOf(abi, "__execute__")
    /\ result = CalldataMismatchError

-----------------------------------------------------------------------------
(* Properties of verify_decorators and verify_no_return_values. *)

\* The positions of the decorators whose name is not in the allowed list.
Offending(decorators, allowed) ==
    {i \in DOMAIN decorators :
        decorators[i].name \notin {allowed[j] : j \in DOMAIN allowed}}

First(S) == CHOOSE i \in S : \A j \in S : i <= j

\* C6: verify_decorators succeeds exactly when every decorator's name is in
\* the allowed list; when it fails, the error carries the location of the
\* first decorator whose name is not, and no later decorator is looked at.
C6_Decorators ==
    (pc = "done" /\ call = "verify_decorators")
        => LET bad == Offending(elm.decorators, allowed_decorators)
           IN  /\ (result = Returned) <=> (bad = {})
               /\ bad # {} =>
                     /\ result = PreprocessorError(MsgUnexpectedDecorator,
                                                   elm.decorators[First(bad)].location)
                     /\ examined = First(bad)

\* A failing call where "external" is allowed, the first offending decorator is
\* "External", and a later offending decorator has another location.
C6_Witness ==
    /\ pc = "done" /\ call = "verify_decorators"
    /\ \E j \in DOMAIN allowed_decorators : allowed_decorators[j] = "external"
    /\ LET bad == Offending(elm.decorators, allowed_decorators)
       IN  /\ Cardinality(bad) = 2
           /\ First(bad) = 2
           /\ elm.decorators[2].name = "External"
           /\ elm.decorators[3].location # elm.decorators[2].location
           /\ result.location = elm.decorators[2].location
    /\ result.raised = "PreprocessorError"
    /\ examined = 2

\* C7: verify_no_return_values succeeds exactly when the returns annotation is
\* absent or a tuple type without members; otherwise it fails with the error
\* that carries the location of the returns annotation.
C7_NoReturnValues ==
    (pc = "done" /\ call = "verify_no_return_values")
        => LET returns == elm.returns
               none == \/ returns = [kind |-> "None"]
                       \/ (returns.kind = "TypeTuple" /\ returns.members = <<>>)
           IN  /\ (result = Returned) <=> none
               /\ ~none => result = PreprocessorError(MsgNoReturnValues, returns.location)

\* A failing call on a returns annotation that is not a tuple type.
C7_Witness ==
    /\ pc = "done" /\ call = "verify_no_return_values"
    /\ elm.returns.kind \in {"TypeFelt", "TypePointer", "TypeStruct"}
    /\ result = PreprocessorError(MsgNoReturnValues, elm.returns.location)

-----------------------------------------------------------------------------
(* Properties of encode_calldata_arguments. *)

EncodeDone == pc = "done" /\ call = "encode_calldata_arguments"

Resolvable(typed_identifier) == typed_identifier.type \in {"felt", "MyStruct"}
HasLocation(typed_identifier) == typed_identifier.location # "None"

\* C8: when every type resolves and every identifier has a location,
\* encode_data is called with one ArgumentInfo for each typed identifier, in
\* the order of the identifiers, each with the identifier's name, resolved type
\* and location, with encoding_type CALLDATA and has_range_check_builtin true.
C8_ArgumentInfos ==
    (EncodeDone /\ \A i \in DOMAIN arguments :
                       Resolvable(arguments[i]) /\ HasLocation(arguments[i]))
        => /\ result = Returned
           /\ encode_data_call.called
           /\ Len(encode_data_call.arguments) = Len(arguments)
           /\ \A i \in DOMAIN arguments :
                  encode_data_call.arguments[i] =
                      [name |-> arguments[i].name,
                       cairo_type |-> resolve_type(arguments[i].type).value,
                       location |-> arguments[i].location]
           /\ encode_data_call.encoding_type = "CALLDATA"
           /\ encode_data_call.has_range_check_builtin = TRUE

\* A call that hands encode_data three arguments, the first and the last of
\* which differ in name and in type.
C8_Witness ==
    /\ EncodeDone
    /\ Len(arguments) = 3
    /\ arguments[1].name # arguments[3].name
    /\ arguments[1].type # arguments[3].type
    /\ encode_data_call.called
    /\ Len(encode_data_call.arguments) = 3
    /\ encode_data_call.arguments[1].name = arguments[1].name
    /\ encode_data_call.arguments[3].cairo_type = "contract.MyStruct"

NoLocationAt(identifiers) == {i \in DOMAIN identifiers : ~HasLocation(identifiers[i])}
UnresolvableAt(identifiers) == {i \in DOMAIN identifiers : ~Resolvable(identifiers[i])}

\* C9 as stated: a call on a list with an argument that has no location ends
\* in the AssertionError and never reaches encode_data, whatever the types of
\* that argument and of the arguments before it.
C9_Original ==
    (EncodeDone /\ NoLocationAt(arguments) # {})
        => /\ result = AssertionError
           /\ ~encode_data_call.called

\* C9 as amended: a call on a list with an argument that has no location never
\* reaches encode_data; it ends in the AssertionError when the types of the
\* first such argument and of all arguments before it resolve, and in the
\* error of the type resolver otherwise.
C9_MissingLocation ==
    (EncodeDone /\ NoLocationAt(arguments) # {})
        => /\ ~encode_data_call.called
           /\ IF \A i \in UnresolvableAt(arguments) : i > First(NoLocationAt(arguments))
              THEN result = AssertionError
              ELSE result = PreprocessorError(MsgUnknownType, NoLocation)

\* A call that ends in the AssertionError on the second argument, after a first
\* argument that resolves and before a third whose type does not.
C9_Witness ==
    /\ EncodeDone
    /\ Len(arguments) = 3
    /\ First(NoLocationAt(arguments)) = 2
    /\ UnresolvableAt(arguments) = {3}
    /\ result = AssertionError
    /\ ~encode_data_call.called

====
